---- MODULE Spec2Model ----
(***************************************************************************)
(* State-machine model of src/src/lib/utils.ts: one connection instance    *)
(* made by newConnection(type, url), either a WebSocketConnection (duplex) *)
(* or an SSEConnection (push-stream), together with the runtime objects    *)
(* it drives (sockets, fetch attempts, pending setTimeout callbacks) and   *)
(* the events the runtime delivers to it.  Every action is one task of the *)
(* single-threaded event loop: a caller's call, a socket event, a timer    *)
(* callback, or the continuation of an await.                              *)
(***************************************************************************)
EXTENDS Integers, Sequences, FiniteSets, Bags, TLC

\* ---------------------------------------------------------------- bounds
MaxSockets == 4          \* sockets one duplex instance may create in a run
MaxRequests == 3         \* requests one push-stream instance may issue in a run
MaxChunks == 2           \* chunks the transport produces in a run

\* ------------------------------------------------------ program constants
DefaultMaxRetries == 3   \* WebSocketConnection config.maxRetries default
backoffInMs == 1000      \* WebSocketConnection config.backoffInMs default
maxBackoff == 30000      \* SSEConnection config.maxBackoff default
backoff == 1000          \* SSEConnection config.backoff default

NULL == "null"

\* NOOP is the handler the constructor registers, () => {}; Handlers are those a
\* caller registers in its place with onMessage.
NOOP == "noop"
Handlers == {"h1"}

\* readyState values in which a WebSocket can still fire an event.
LiveStates == {"CONNECTING", "OPEN", "CLOSING"}

\* ------------------------------------------------------------- variables
\* The instance refers to a socket only through this.ws, and a socket's callbacks
\* refer back only to the instance, so a socket is known by its readyState and by
\* whether it is the one held in ws: ws holds the readyState of the held socket,
\* and orphans the readyStates of the sockets this instance created, no longer
\* holds, and whose callbacks are still attached and can still fire.  A socket
\* released by close() has its callbacks nulled and is tracked no further.
VARIABLES
  kind,            \* "websocket" | "sse": the class newConnection constructed
  maxRetries,      \* WebSocketConnection.config.maxRetries, fixed at construction
  ws,              \* WebSocketConnection.ws: NULL, or the readyState of the socket held
  retriesDone,     \* WebSocketConnection.retriesDone
  shouldRetry,     \* WebSocketConnection.shouldRetry
  messageHandler,  \* WebSocketConnection.messageHandler
  orphans,         \* bag of readyStates: live sockets with callbacks attached, not held in ws
  created,         \* number of WebSocket objects the instance has constructed
  timers,          \* pending setTimeout callbacks of the duplex instance (bag of delays)
  abortController, \* SSEConnection.abortController: NULL or a controller
  sseHealth,       \* SSEConnection.health
  sseRetriesDone,  \* SSEConnection.retriesDone
  sseShouldRetry,  \* SSEConnection.shouldRetry
  sseMessageHandler, \* SSEConnection.messageHandler
  attempts,        \* bag of running connect() executions: payload, await point, signal held
  requests,        \* number of fetch requests the instance has issued
  sseTimers,       \* pending setTimeout callbacks of retry() (bag of payload and delay)
  restarts,        \* history: restarts retry() scheduled since the caller's last connect(payload)
  delivered,       \* history: handler invocations, in order
  produced,        \* history: chunks the transport produced, with the handler registered then
  lastOp,          \* history: the task that ran last and how it ended
  drops,           \* history: unexpected closes since the last open
  lastDelay,       \* history: delay of the reconnect scheduled last in the current series of retries
  overlapped,      \* history: a socket was created while another attempt was live
  closedByCaller,  \* history: close() tore down a socket and the caller has not connected since
  gaveUp           \* history: a close arrived with retriesDone >= maxRetries, no caller connect since

wsVars == <<ws, retriesDone, shouldRetry, messageHandler, orphans, created, timers>>
histVars == <<delivered, produced, lastOp, drops, lastDelay, overlapped, closedByCaller, gaveUp>>
sseVars == <<abortController, sseHealth, sseRetriesDone, sseShouldRetry, sseMessageHandler,
             attempts, requests, sseTimers, restarts>>
vars == <<kind, maxRetries, wsVars, sseVars, histVars>>

\* lastOp: the task, how it ended, and the argument the claims speak of.
Op(name, res) == [op |-> name, res |-> res, arg |-> "-"]
OpArg(name, arg, res) == [op |-> name, res |-> res, arg |-> arg]

\* Text of the next websocket message (event.data), as code points: the peer
\* numbers its messages "1", "2", ..., so a drop, a repeat or a swap shows in the log.
NextData == <<48 + Len(produced) + 1>>

\* ------------------------------------------------- WebSocketConnection
\* getHealth(): derived from the live readyState of the socket held in ws.
getHealth ==
  IF ws # NULL
    THEN CASE ws = "CONNECTING" -> "connecting"
           [] ws = "OPEN" -> "connected"
           [] ws = "CLOSED" -> "closed"
           [] OTHER -> "error"
    ELSE "closed"

\* The held socket, as an orphan-to-be: it stays live when ws stops holding it
\* without its callbacks being nulled.
HeldLive == IF ws \in LiveStates THEN SetToBag({ws}) ELSE EmptyBag

\* Mutant of ConnectOpens: no early return, every connect() opens a socket.
ConnectOpensAlways == TRUE

\* connect(), line 54: return when the held socket is OPEN.
ConnectOpens == ~(ws # NULL /\ ws = "OPEN")

\* The body of connect(): when it does not return early, create a socket, store
\* it in ws (the socket held before keeps its callbacks) and attach the four
\* callbacks.
ConnectBody(pendingTimers) ==
  IF ConnectOpens
    THEN /\ created < MaxSockets
         /\ created' = created + 1
         /\ ws' = "CONNECTING"
         /\ orphans' = orphans (+) HeldLive
         /\ overlapped' = (overlapped \/ ws \in LiveStates \/ orphans # EmptyBag
                             \/ pendingTimers # EmptyBag)
    ELSE UNCHANGED <<created, ws, orphans, overlapped>>

\* caller: await connection.connect(); the promise resolves when the body returns.
Connect ==
  /\ kind = "websocket"
  /\ ConnectBody(timers)
  /\ closedByCaller' = FALSE
  /\ gaveUp' = FALSE
  /\ lastOp' = Op("connect", IF ConnectOpens THEN "opened" ELSE "noop")
  /\ UNCHANGED <<kind, sseVars, maxRetries, retriesDone, shouldRetry, messageHandler, timers,
                 delivered, produced, drops, lastDelay>>

\* Mutant of RetryAllowed: the ceiling compared with <= (one retry too many).
RetryAllowedInclusive == shouldRetry /\ retriesDone <= maxRetries

\* ws.onclose, line 75: retry first before giving up.
RetryAllowed == shouldRetry /\ retriesDone < maxRetries

\* ws.onclose, line 76.
BackoffDelay == retriesDone * backoffInMs

\* ws.onclose of a socket, with held the value ws has once the runtime has set
\* that socket's readyState and others the live sockets not held: schedule the
\* reconnect callback, or clear the handle (a live socket held then is orphaned).
OnClose(held, others) ==
  IF RetryAllowed
    THEN /\ timers' = timers (+) SetToBag({BackoffDelay})
         /\ lastDelay' = BackoffDelay
         /\ ws' = held
         /\ orphans' = others
         /\ UNCHANGED gaveUp
    ELSE /\ ws' = NULL
         /\ orphans' = others (+) (IF held \in LiveStates THEN SetToBag({held}) ELSE EmptyBag)
         /\ gaveUp' = (gaveUp \/ retriesDone >= maxRetries)
         /\ UNCHANGED <<timers, lastDelay>>

\* ws.onmessage: forward event.data to the handler registered now.
OnMessageEvent(data) ==
  delivered' = Append(delivered, [h |-> messageHandler, data |-> data])

\* The sockets an event can come from: the held one (isHeld) or an orphan, in
\* readyState st.
HasSocket(isHeld, st) == IF isHeld THEN ws = st ELSE BagIn(st, orphans)

\* runtime: the handshake of a socket completes; readyState OPEN, then onopen.
SocketOpen(isHeld) ==
  /\ kind = "websocket"
  /\ HasSocket(isHeld, "CONNECTING")
  /\ IF isHeld
       THEN ws' = "OPEN" /\ UNCHANGED orphans
       ELSE /\ orphans' = (orphans (-) SetToBag({"CONNECTING"})) (+) SetToBag({"OPEN"})
            /\ UNCHANGED ws
  /\ retriesDone' = 0
  /\ drops' = 0
  /\ lastDelay' = 0
  /\ lastOp' = Op("open", "ok")
  /\ UNCHANGED <<kind, sseVars, maxRetries, shouldRetry, messageHandler, created, timers,
                 delivered, produced, overlapped, closedByCaller, gaveUp>>

\* runtime: a message event on a socket (dispatched only while readyState is OPEN).
SocketMessage(isHeld) ==
  /\ kind = "websocket"
  /\ HasSocket(isHeld, "OPEN")
  /\ Len(produced) < MaxChunks
  /\ produced' = Append(produced, [h |-> messageHandler, data |-> NextData])
  /\ OnMessageEvent(NextData)
  /\ lastOp' = Op("message", "ok")
  /\ UNCHANGED <<kind, sseVars, maxRetries, wsVars, drops, lastDelay, overlapped, closedByCaller, gaveUp>>

\* runtime: the peer starts the closing handshake; readyState CLOSING.
SocketPeerClosing(isHeld) ==
  /\ kind = "websocket"
  /\ HasSocket(isHeld, "OPEN")
  /\ IF isHeld
       THEN ws' = "CLOSING" /\ UNCHANGED orphans
       ELSE /\ orphans' = (orphans (-) SetToBag({"OPEN"})) (+) SetToBag({"CLOSING"})
            /\ UNCHANGED ws
  /\ lastOp' = Op("closing", "ok")
  /\ UNCHANGED <<kind, sseVars, maxRetries, retriesDone, shouldRetry, messageHandler, created,
                 timers, delivered, produced, drops, lastDelay, overlapped, closedByCaller,
                 gaveUp>>

\* runtime: a socket in readyState st closes (after a failure: error event
\* first, onerror only logs); readyState CLOSED, then onclose.
SocketClosed(isHeld, st, failed) ==
  /\ kind = "websocket"
  /\ HasSocket(isHeld, st)
  /\ IF isHeld
       THEN OnClose("CLOSED", orphans)
       ELSE OnClose(ws, orphans (-) SetToBag({st}))
  /\ drops' = drops + 1
  /\ lastOp' = Op(IF failed THEN "socket failed" ELSE "socket closed",
                  IF RetryAllowed THEN "scheduled" ELSE "cleared")
  /\ UNCHANGED <<kind, sseVars, maxRetries, retriesDone, shouldRetry, messageHandler, created,
                 delivered, produced, overlapped, closedByCaller>>

\* setTimeout callback of onclose: retriesDone++, then connect().
ReconnectTimer(d) ==
  /\ kind = "websocket"
  /\ BagIn(d, timers)
  /\ timers' = timers (-) SetToBag({d})
  /\ retriesDone' = retriesDone + 1
  /\ ConnectBody(timers (-) SetToBag({d}))
  /\ lastOp' = Op("timer", IF ConnectOpens THEN "opened" ELSE "noop")
  /\ UNCHANGED <<kind, sseVars, maxRetries, shouldRetry, messageHandler, delivered,
                 produced, drops, lastDelay, closedByCaller, gaveUp>>

\* Mutant of CanSend: any held socket will do, open or not.
CanSendAnySocket == ws # NULL

\* send(), line 90, with this.health = this.getHealth() of line 89 read in place
\* (the cached field is written there and read nowhere else).
CanSend == ws # NULL /\ getHealth = "connected"

\* caller: connection.send(data): ws.send(data), or throw "Websocket not connected".
Send ==
  /\ kind = "websocket"
  /\ lastOp' = Op("send", IF CanSend THEN "sent" ELSE "throw")
  /\ UNCHANGED <<kind, sseVars, maxRetries, wsVars, delivered, produced, drops, lastDelay, overlapped,
                 closedByCaller, gaveUp>>

\* caller: connection.onMessage(handler)
OnMessage(handler) ==
  /\ kind = "websocket"
  /\ messageHandler' = handler
  /\ lastOp' = Op("onMessage", "ok")
  /\ UNCHANGED <<kind, sseVars, maxRetries, ws, retriesDone, shouldRetry, orphans, created,
                 timers, delivered, produced, drops, lastDelay, overlapped, closedByCaller, gaveUp>>

\* Mutant of Close: the socket is closed natively but the handle is kept.
CloseKeepsHandle ==
  /\ kind = "websocket"
  /\ IF ws # NULL
       THEN /\ shouldRetry' = FALSE
            /\ ws' = "CLOSING"
            /\ closedByCaller' = TRUE
            /\ lastOp' = Op("close", "closed")
       ELSE /\ lastOp' = Op("close", "nothing open")
            /\ UNCHANGED <<shouldRetry, ws, closedByCaller>>
  /\ UNCHANGED <<kind, sseVars, maxRetries, retriesDone, messageHandler, orphans, created,
                 timers, delivered, produced, drops, lastDelay, overlapped, gaveUp>>

\* caller: connection.close(): with a socket held, stop retrying, close it
\* natively, null its callbacks and drop it; else only log.
Close ==
  /\ kind = "websocket"
  /\ IF ws # NULL
       THEN /\ shouldRetry' = FALSE
            /\ ws' = NULL
            /\ closedByCaller' = TRUE
            /\ lastOp' = Op("close", "closed")
       ELSE /\ lastOp' = Op("close", "nothing open")
            /\ UNCHANGED <<shouldRetry, ws, closedByCaller>>
  /\ UNCHANGED <<kind, sseVars, maxRetries, retriesDone, messageHandler, orphans, created,
                 timers, delivered, produced, drops, lastDelay, overlapped, gaveUp>>

\* ------------------------------------------------------- SSEConnection
\* Payloads a caller passes to connect(); UNDEFINED is connect() without an
\* argument, and the empty string is as falsy as undefined.
UNDEFINED == "<undefined>"
Payloads == {"p1", "p2"}
NoPayloads == {UNDEFINED, ""}

\* The bytes of the next chunk reader.read() yields: the body is the UTF-8 text
\* "hi", then an e-acute split over two chunks, then numbered ASCII chunks.
NextChunk ==
  CASE Len(produced) = 0 -> <<104, 105>>
    [] Len(produced) = 1 -> <<195>>
    [] Len(produced) = 2 -> <<169, 33>>
    [] OTHER -> <<48 + Len(produced)>>

\* decoder.decode(value), line 171: UTF-8, not streaming, not fatal; a byte
\* that does not start a complete sequence becomes U+FFFD.  (Bytes are ASCII,
\* two-byte leads or continuations here.)
RECURSIVE Decode(_)
Decode(bytes) ==
  IF bytes = <<>> THEN <<>>
  ELSE IF bytes[1] < 128 THEN <<bytes[1]>> \o Decode(Tail(bytes))
  ELSE IF bytes[1] \in 194..223 /\ Len(bytes) >= 2 /\ bytes[2] \in 128..191
    THEN <<(bytes[1] - 192) * 64 + (bytes[2] - 128)>> \o Decode(Tail(Tail(bytes)))
  ELSE <<65533>> \o Decode(Tail(bytes))

\* getHealth(): the cached field.
sseGetHealth == sseHealth

\* The running attempt whose signal belongs to the controller held (at most one).
HeldAttempts == {a \in BagToSet(attempts) : a.held}

\* this.abortController = new AbortController(): the attempt that held the
\* previous controller keeps running, out of reach of abort().
Unheld ==
  IF HeldAttempts = {} THEN attempts
  ELSE LET a == CHOOSE x \in HeldAttempts : TRUE
       IN (attempts (-) SetToBag({a})) (+) SetToBag({[a EXCEPT !.held = FALSE]})

\* Mutant of MissingPayload: only a missing argument counts, not the empty string.
MissingPayloadUndefinedOnly(payload) == payload = UNDEFINED

\* connect(), line 139.
MissingPayload(payload) == payload \in NoPayloads

\* connect(payload) up to its first await: lines 139-154.
sseConnectBody(payload) ==
  IF MissingPayload(payload)
    THEN /\ sseHealth' = "error"
         /\ UNCHANGED <<abortController, sseRetriesDone, attempts, requests>>
    ELSE /\ requests < MaxRequests
         /\ sseRetriesDone' = 0
         /\ sseHealth' = "connecting"
         /\ abortController' = "controller"
         /\ attempts' = Unheld (+) SetToBag({[payload |-> payload, phase |-> "fetch",
                                               held |-> TRUE]})
         /\ requests' = requests + 1

\* caller: await connection.connect(payload)
sseConnect(payload) ==
  /\ kind = "sse"
  /\ sseConnectBody(payload)
  /\ restarts' = (IF MissingPayload(payload) THEN restarts ELSE 0)
  /\ lastDelay' = (IF MissingPayload(payload) THEN lastDelay ELSE 0)
  /\ closedByCaller' = FALSE
  /\ lastOp' = OpArg("connect", payload,
                      IF MissingPayload(payload) THEN "throw missing payload" ELSE "pending")
  /\ UNCHANGED <<kind, wsVars, maxRetries, sseShouldRetry, sseMessageHandler, sseTimers,
                 delivered, produced, drops, overlapped, gaveUp>>

\* retry(payload), lines 181-185.
sseBackoffDelay(count) ==
  IF count * backoff < maxBackoff THEN count * backoff ELSE maxBackoff

\* Mutant of Retry: the callback calls connect() without the payload, as the
\* duplex reconnect does.
RetryWithoutPayload(payload) ==
  /\ sseRetriesDone' = sseRetriesDone + 1
  /\ sseTimers' = sseTimers (+) SetToBag({[payload |-> UNDEFINED,
                                           delay |-> sseBackoffDelay(sseRetriesDone + 1)]})
  /\ restarts' = restarts + 1
  /\ lastDelay' = sseBackoffDelay(sseRetriesDone + 1)

\* retry(payload): count the retry and schedule connect(payload).
Retry(payload) ==
  /\ sseRetriesDone' = sseRetriesDone + 1
  /\ sseTimers' = sseTimers (+) SetToBag({[payload |-> payload,
                                           delay |-> sseBackoffDelay(sseRetriesDone + 1)]})
  /\ restarts' = restarts + 1
  /\ lastDelay' = sseBackoffDelay(sseRetriesDone + 1)

\* The attempt a continues at its await point, or ends (next = "done").
Advance(a, next) ==
  IF next = "done" THEN attempts (-) SetToBag({a})
  ELSE (attempts (-) SetToBag({a})) (+) SetToBag({[a EXCEPT !.phase = next]})

\* Mutant of BadResponse: the failed attempt is retried like a finished one.
BadResponseRetries(a) ==
  /\ sseHealth' = "error"
  /\ attempts' = Advance(a, "done")
  /\ Retry(a.payload)

\* lines 155-160: !response.ok || !response.body: health error, then throw.
BadResponse(a) ==
  /\ sseHealth' = "error"
  /\ attempts' = Advance(a, "done")
  /\ UNCHANGED <<sseRetriesDone, sseTimers, restarts, lastDelay>>

\* runtime: fetch resolves for attempt a with a response that is a success with
\* a body (ok) or not; lines 155-162.
sseResponse(a, ok) ==
  /\ kind = "sse"
  /\ BagIn(a, attempts)
  /\ a.phase = "fetch"
  /\ IF ok
       THEN /\ sseHealth' = "connected"
            /\ attempts' = Advance(a, "read")
            /\ UNCHANGED <<sseRetriesDone, sseTimers, restarts, lastDelay>>
       ELSE BadResponse(a)
  /\ lastOp' = OpArg("response", IF ok THEN "ok" ELSE "bad",
                      IF ok THEN "reading" ELSE "throw bad response")
  /\ UNCHANGED <<kind, wsVars, maxRetries, abortController, sseShouldRetry,
                 sseMessageHandler, requests, delivered, produced, drops,
                 overlapped, closedByCaller, gaveUp>>

\* runtime: fetch rejects for attempt a (network failure); the await throws.
sseFetchFails(a) ==
  /\ kind = "sse"
  /\ BagIn(a, attempts)
  /\ a.phase = "fetch"
  /\ attempts' = Advance(a, "done")
  /\ lastOp' = Op("fetch failed", "throw")
  /\ UNCHANGED <<kind, wsVars, maxRetries, abortController, sseHealth, sseRetriesDone,
                 sseShouldRetry, sseMessageHandler, requests, sseTimers, restarts, delivered,
                 produced, drops, lastDelay, overlapped, closedByCaller, gaveUp>>

\* Mutant of sseOnChunk: the bytes are handed over undecoded.
sseOnChunkRaw(value) ==
  delivered' = Append(delivered, [h |-> sseMessageHandler, data |-> value])

\* read loop, lines 171-172: decode the chunk and hand it to the handler registered now.
sseOnChunk(value) ==
  delivered' = Append(delivered, [h |-> sseMessageHandler, data |-> Decode(value)])

\* runtime: reader.read() of attempt a yields a chunk.
sseChunk(a) ==
  /\ kind = "sse"
  /\ BagIn(a, attempts)
  /\ a.phase = "read"
  /\ Len(produced) < MaxChunks
  /\ produced' = Append(produced, [h |-> sseMessageHandler, data |-> NextChunk])
  /\ sseOnChunk(NextChunk)
  /\ lastOp' = Op("chunk", "ok")
  /\ UNCHANGED <<kind, wsVars, maxRetries, sseVars, drops, lastDelay, overlapped, closedByCaller,
                 gaveUp>>

\* runtime: reader.read() of attempt a rejects (the body breaks off); the await throws.
sseReadFails(a) ==
  /\ kind = "sse"
  /\ BagIn(a, attempts)
  /\ a.phase = "read"
  /\ attempts' = Advance(a, "done")
  /\ lastOp' = Op("read failed", "throw")
  /\ UNCHANGED <<kind, wsVars, maxRetries, abortController, sseHealth, sseRetriesDone,
                 sseShouldRetry, sseMessageHandler, requests, sseTimers, restarts, delivered,
                 produced, drops, lastDelay, overlapped, closedByCaller, gaveUp>>

\* runtime: reader.read() of attempt a reports done; lines 169, 175-177.
sseBodyEnd(a) ==
  /\ kind = "sse"
  /\ BagIn(a, attempts)
  /\ a.phase = "read"
  /\ sseHealth' = "closed"
  /\ attempts' = Advance(a, "done")
  /\ IF sseShouldRetry
       THEN Retry(a.payload)
       ELSE UNCHANGED <<sseRetriesDone, sseTimers, restarts, lastDelay>>
  /\ lastOp' = OpArg("end", a.payload, IF sseShouldRetry THEN "scheduled" ELSE "resolved")
  /\ UNCHANGED <<kind, wsVars, maxRetries, abortController, sseShouldRetry,
                 sseMessageHandler, requests, delivered, produced, drops, overlapped,
                 closedByCaller, gaveUp>>

\* setTimeout callback of retry(): connect(payload).
sseRestartTimer(t) ==
  /\ kind = "sse"
  /\ BagIn(t, sseTimers)
  /\ sseTimers' = sseTimers (-) SetToBag({t})
  /\ sseConnectBody(t.payload)
  /\ lastOp' = OpArg("timer", t.payload, "pending")
  /\ UNCHANGED <<kind, wsVars, maxRetries, sseShouldRetry, sseMessageHandler, restarts, delivered,
                 produced, drops, lastDelay, overlapped, closedByCaller, gaveUp>>

\* caller: connection.onMessage(handler)
sseOnMessage(handler) ==
  /\ kind = "sse"
  /\ sseMessageHandler' = handler
  /\ lastOp' = Op("onMessage", "ok")
  /\ UNCHANGED <<kind, wsVars, maxRetries, abortController, sseHealth, sseRetriesDone,
                 sseShouldRetry, attempts, requests, sseTimers, restarts, delivered, produced,
                 drops, lastDelay, overlapped, closedByCaller, gaveUp>>

\* abortController?.abort(): the pending fetch or read of the attempt that holds
\* the signal rejects, and that attempt runs no further line of connect().
Aborted == IF abortController = NULL THEN attempts
           ELSE [a \in {x \in BagToSet(attempts) : ~x.held} |-> attempts[a]]

\* caller: connection.close()
sseClose ==
  /\ kind = "sse"
  /\ sseShouldRetry' = FALSE
  /\ sseHealth' = "closed"
  /\ attempts' = Aborted
  /\ abortController' = NULL
  /\ closedByCaller' = TRUE
  /\ lastOp' = Op("close", "closed")
  /\ UNCHANGED <<kind, wsVars, maxRetries, sseRetriesDone, sseMessageHandler, requests,
                 sseTimers, restarts, delivered, produced, drops, lastDelay, overlapped, gaveUp>>

Init ==
  /\ kind \in {"websocket", "sse"}
  /\ maxRetries \in 1..DefaultMaxRetries
  /\ ws = NULL
  /\ retriesDone = 0
  /\ shouldRetry = TRUE
  /\ messageHandler = NOOP
  /\ orphans = EmptyBag
  /\ created = 0
  /\ timers = EmptyBag
  /\ abortController = NULL
  /\ sseHealth = "closed"
  /\ sseRetriesDone = 0
  /\ sseShouldRetry = TRUE
  /\ sseMessageHandler = NOOP
  /\ attempts = EmptyBag
  /\ requests = 0
  /\ sseTimers = EmptyBag
  /\ restarts = 0
  /\ delivered = <<>>
  /\ produced = <<>>
  /\ lastOp = Op("new", "ok")
  /\ drops = 0
  /\ lastDelay = 0
  /\ overlapped = FALSE
  /\ closedByCaller = FALSE
  /\ gaveUp = FALSE

Next ==
  \/ Connect
  \/ Send
  \/ \E handler \in Handlers : OnMessage(handler)
  \/ Close
  \/ \E isHeld \in BOOLEAN : SocketOpen(isHeld)
  \/ \E isHeld \in BOOLEAN : SocketMessage(isHeld)
  \/ \E isHeld \in BOOLEAN : SocketPeerClosing(isHeld)
  \/ \E isHeld \in BOOLEAN, st \in LiveStates, failed \in BOOLEAN :
       SocketClosed(isHeld, st, failed)
  \/ \E d \in BagToSet(timers) : ReconnectTimer(d)
  \/ \E payload \in Payloads \cup NoPayloads : sseConnect(payload)
  \/ \E handler \in Handlers : sseOnMessage(handler)
  \/ sseClose
  \/ \E a \in BagToSet(attempts), ok \in BOOLEAN : sseResponse(a, ok)
  \/ \E a \in BagToSet(attempts) : sseFetchFails(a)
  \/ \E a \in BagToSet(attempts) : sseChunk(a)
  \/ \E a \in BagToSet(attempts) : sseReadFails(a)
  \/ \E a \in BagToSet(attempts) : sseBodyEnd(a)
  \/ \E t \in BagToSet(sseTimers) : sseRestartTimer(t)

Spec == Init /\ [][Next]_vars

\* ==================================================================== claims

\* C1: duplex: once close() has released a socket, and until the caller
\* connects again, the connection opens no socket and invokes the handler no
\* more, whatever was pending when close() was called.
C1_QuietAfterClose ==
  [][(kind = "websocket" /\ closedByCaller /\ closedByCaller')
       => (created' = created /\ delivered' = delivered)]_vars

\* C2: push-stream: once close() has been called, and until the caller
\* connects again, no request is issued, the handler is invoked no more and
\* getHealth() stays closed.
C2_QuietAfterClose ==
  [][(kind = "sse" /\ closedByCaller /\ closedByCaller')
       => (requests' = requests /\ delivered' = delivered /\ sseGetHealth' = "closed")]_vars

C4_GiveUpIsPermanent ==
  [][kind = "websocket"
       => /\ (~gaveUp /\ gaveUp') => (timers' = timers /\ ws' = NULL)
          /\ gaveUp' => (getHealth' \in {"closed", "error"} /\ ~CanSend')
          /\ (gaveUp /\ gaveUp') => created' = created]_vars

\* C5: duplex send(): data goes to the socket exactly when getHealth() is
\* connected; otherwise it throws, and either way the handle, the retry counter,
\* the retry flag and the pending reconnects are left as they were.
C5_SendIffConnected ==
  [][(kind = "websocket" /\ lastOp'.op = "send")
       => /\ lastOp'.res = (IF getHealth = "connected" THEN "sent" ELSE "throw")
          /\ UNCHANGED <<ws, retriesDone, shouldRetry, timers, orphans, created>>]_vars

\* C5 witness: send() has thrown while the held socket was neither open nor
\* closed (getHealth() = error), with retries still enabled.
C5_Witness ==
  /\ kind = "websocket" /\ lastOp = Op("send", "throw")
  /\ getHealth = "error" /\ shouldRetry

\* C6: duplex: when the promise of the caller's connect() has resolved, the
\* connection is connected (so that a send() issued right then passes data on).
C6_ConnectedWhenConnectResolves ==
  (kind = "websocket" /\ lastOp.op = "connect") => getHealth = "connected"

C8_MissingPayloadNoIO ==
  [][(kind = "sse" /\ lastOp'.op = "connect" /\ lastOp'.arg \in NoPayloads)
       => /\ lastOp'.res = "throw missing payload"
          /\ UNCHANGED <<requests, abortController, attempts, sseTimers>>]_vars

\* C8 witness: connect("") has thrown while an earlier attempt was reading.
C8_Witness ==
  /\ kind = "sse" /\ lastOp = OpArg("connect", "", "throw missing payload")
  /\ \E a \in BagToSet(attempts) : a.phase = "read"

\* C9: push-stream: a non-success or bodyless response makes health error,
\* rejects the connect() promise, forwards no chunk and schedules no restart.
C9_BadResponseIsFatal ==
  [][(kind = "sse" /\ lastOp'.op = "response" /\ lastOp'.arg = "bad")
       => /\ sseGetHealth' = "error"
          /\ lastOp'.res = "throw bad response"
          /\ UNCHANGED <<delivered, sseTimers, requests, sseRetriesDone>>]_vars

\* C9 witness: a bad response has arrived with retries enabled.
C9_Witness ==
  /\ kind = "sse" /\ lastOp.op = "response" /\ lastOp.arg = "bad"
  /\ sseShouldRetry /\ sseGetHealth = "error"

\* C10: push-stream: a normal end of the body makes health closed; with retries
\* enabled it schedules one restart carrying the payload of the attempt that
\* ended, whatever the number of restarts so far, and the restart issues a
\* request with that payload; only close() disables retries, and with retries
\* disabled a normal end schedules nothing.
C10_RestartOnEnd ==
  [][kind = "sse"
       => /\ lastOp'.op = "end"
               => /\ sseGetHealth' = "closed"
                  /\ sseShouldRetry
                       => \E t \in BagToSet(sseTimers') :
                            /\ t.payload = lastOp'.arg
                            /\ sseTimers' = sseTimers (+) SetToBag({t})
                  /\ ~sseShouldRetry => sseTimers' = sseTimers
          /\ lastOp'.op = "timer"
               => /\ requests' = requests + 1
                  /\ BagIn([payload |-> lastOp'.arg, phase |-> "fetch", held |-> TRUE],
                           attempts')
          /\ (sseShouldRetry /\ lastOp'.op # "close") => sseShouldRetry']_vars

\* C10 witness: the third request of a run, itself a restart, has ended
\* normally and scheduled the next restart.
C10_Witness ==
  /\ kind = "sse" /\ requests >= 3 /\ lastOp.op = "end" /\ lastOp.res = "scheduled"
  /\ lastOp.arg = "p2"

\* C11: both transports: an unexpected drop of an established connection, with
\* retries enabled and not exhausted, schedules a reconnect and raises nothing
\* (duplex: the held socket, open or closing, closes; push-stream: a read of
\* the body fails).
C11_DropRecoversLocally ==
  [][/\ (/\ kind = "websocket"
         /\ lastOp'.op \in {"socket closed", "socket failed"}
         /\ ws \in {"OPEN", "CLOSING"} /\ ws' # ws
         /\ RetryAllowed)
          => (lastOp'.res = "scheduled" /\ BagCardinality(timers') = BagCardinality(timers) + 1)
     /\ (kind = "sse" /\ lastOp'.op = "read failed" /\ sseShouldRetry)
          => (lastOp'.res # "throw"
                /\ BagCardinality(sseTimers') = BagCardinality(sseTimers) + 1)]_vars

\* C12: both transports: a failure of the first attempt of connect() rejects the
\* caller's connect() promise (duplex: the only socket so far fails before it
\* opens; push-stream: the request fails or the response is not a success).
C12_FirstFailureRejects ==
  [][/\ (/\ kind = "websocket"
         /\ lastOp'.op = "socket failed"
         /\ created = 1 /\ ws = "CONNECTING" /\ ws' # ws)
          => lastOp'.res = "throw"
     /\ (kind = "sse" /\ lastOp'.op = "fetch failed") => lastOp'.res = "throw"
     /\ (kind = "sse" /\ lastOp'.op = "response" /\ lastOp'.arg = "bad")
          => lastOp'.res = "throw bad response"]_vars

\* C13: both transports: right after a transport fault of a connecting or
\* connected connection getHealth() reports error (duplex: the held socket,
\* connecting or open, errors or drops; push-stream: the request is rejected or
\* a read of the body fails).
C13_FaultReportsError ==
  [][/\ (/\ kind = "websocket"
         /\ lastOp'.op \in {"socket closed", "socket failed"}
         /\ ws \in {"CONNECTING", "OPEN"} /\ ws' # ws)
          => getHealth' = "error"
     /\ (kind = "sse" /\ lastOp'.op \in {"fetch failed", "read failed"})
          => sseGetHealth' = "error"]_vars

\* C14: both transports: close() never throws and leaves getHealth() equal to
\* closed, also on an instance that never connected; it leaves the fields it
\* writes at the values a further close() would write (duplex: no handle, so
\* the further call writes nothing), and a close() that follows a close()
\* directly changes no field of the connection.
C14_CloseIdempotent ==
  [][lastOp'.op = "close"
       => /\ lastOp'.res \in {"closed", "nothing open"}
          /\ (IF kind = "websocket" THEN getHealth' ELSE sseGetHealth') = "closed"
          /\ IF kind = "websocket"
               THEN ws' = NULL
               ELSE ~sseShouldRetry' /\ sseHealth' = "closed" /\ abortController' = NULL
          /\ lastOp.op = "close"
               => UNCHANGED <<ws, retriesDone, shouldRetry, messageHandler, abortController,
                              sseHealth, sseRetriesDone, sseShouldRetry, sseMessageHandler>>]_vars

\* C14 witness: duplex close() has run with nothing to close, after an earlier
\* close() that released a socket and with no connect() in between.
C14_Witness ==
  /\ kind = "websocket" /\ lastOp = Op("close", "nothing open")
  /\ closedByCaller /\ ~shouldRetry /\ created > 0

\* C15: duplex: connect() called while the held socket is open returns without
\* creating a socket, keeps the held socket and its callbacks, and leaves the
\* retry counter, the retry flag and the pending reconnects as they were.
C15_ConnectIdempotentWhenOpen ==
  [][(kind = "websocket" /\ lastOp'.op = "connect" /\ getHealth = "connected")
       => /\ lastOp'.res = "noop"
          /\ UNCHANGED <<ws, orphans, created, retriesDone, shouldRetry, messageHandler,
                         timers>>]_vars

\* C15 witness: connect() has returned early on an open socket, with a
\* reconnect of an older socket still pending.
C15_Witness ==
  /\ kind = "websocket" /\ lastOp = Op("connect", "noop")
  /\ ws = "OPEN" /\ timers # EmptyBag

\* C16: push-stream: the k-th restart scheduled since the caller's connect()
\* (k = 1, 2, ...) is scheduled after min(k * backoff, maxBackoff).
C16_RestartDelayGrows ==
  [][(kind = "sse" /\ lastOp'.op = "end" /\ lastOp'.res = "scheduled")
       => \E t \in BagToSet(sseTimers') :
            /\ sseTimers' = sseTimers (+) SetToBag({t})
            /\ t.delay = sseBackoffDelay(restarts')]_vars

\* C17: both transports: within a series of consecutive retries (duplex: no
\* socket has opened in between; push-stream: the caller has not connected in
\* between) each reconnect is scheduled with a delay >= that of the one
\* scheduled before it, the delay is the one the retry count gives, and no
\* push-stream delay exceeds maxBackoff.
C17_DelayNonDecreasing ==
  [][/\ (kind = "websocket" /\ lastOp'.op \in {"socket closed", "socket failed"}
           /\ lastOp'.res = "scheduled")
          => (lastDelay' >= lastDelay /\ lastDelay' = retriesDone * backoffInMs)
     /\ (kind = "sse" /\ lastOp'.op = "end" /\ lastOp'.res = "scheduled")
          => /\ lastDelay' >= lastDelay
             /\ lastDelay' = sseBackoffDelay(sseRetriesDone')
             /\ \A t \in BagToSet(sseTimers') : t.delay <= maxBackoff]_vars

\* C18: both transports: every teardown leaves the handle null: close(), the
\* duplex give-up (a close event that schedules no reconnect), and for the
\* push-stream a non-success response, a failed request and the normal end of
\* the body.
C18_HandleReleased ==
  [][/\ (kind = "websocket"
           /\ \/ lastOp'.op = "close"
              \/ (lastOp'.op \in {"socket closed", "socket failed"} /\ lastOp'.res = "cleared"))
          => ws' = NULL
     /\ (kind = "sse"
           /\ \/ lastOp'.op \in {"close", "fetch failed", "end"}
              \/ (lastOp'.op = "response" /\ lastOp'.arg = "bad"))
          => abortController' = NULL]_vars

\* C19: duplex: under every interleaving the retry counter stays within
\* 0..maxRetries, an open sets it to 0, a reconnect timer that fires adds
\* exactly 1, and no other task changes it.
C19_RetryCounterBounded ==
  [][kind = "websocket"
       => /\ retriesDone' \in 0..maxRetries
          /\ lastOp'.op = "open" => retriesDone' = 0
          /\ lastOp'.op = "timer" => retriesDone' = retriesDone + 1
          /\ lastOp'.op \notin {"open", "timer"} => retriesDone' = retriesDone]_vars

\* C20: one active transport attempt per instance: duplex: every live socket
\* with callbacks attached is the one held in ws (so there is at most one, and
\* no close event of another socket can clear the handle of the held one);
\* push-stream: at most one connect() is awaiting a response or a read, and
\* none is right after close().
C20_OneAttemptAtATime ==
  /\ kind = "websocket" => orphans = EmptyBag
  /\ kind = "sse"
       => /\ BagCardinality(attempts) <= 1
          /\ lastOp.op = "close" => attempts = EmptyBag
====
